---- MODULE Spec2Model ----
(***************************************************************************)
(* Model of the credibility analyser: the metrics extractor and the        *)
(* credibility scorer of services/metrics.py, and the orchestrator of      *)
(* services/app_logic.py with its explanation and storage collaborators.   *)
(*                                                                         *)
(* Numbers.  Transcripts are TLC strings.  A percentage that the code      *)
(* holds as a float is held here in hundredths (100.0 is 10000), and a     *)
(* value before round() as an exact fraction [n, d].  round(x, 1) is       *)
(* round-half-even on the exact value; binary floating point error is not  *)
(* modelled.                                                               *)
(***************************************************************************)
EXTENDS Integers, Sequences, FiniteSets, TLC

VARIABLES
    pc,                  \* position of the running operation
    nfrag,               \* how many fragments the transcript under test was built from
    transcript,          \* the text handed to extract_all_metrics (combined_transcript)
    raw,                 \* the four _calculate_* return values, before round()
    metrics,             \* extraction_result['metrics']
    predictions,         \* extraction_result['predictions']
    evidence,            \* extraction_result['evidence']
    historical_accuracy, \* the accuracy handed to calculate_credibility_score
    cred,                \* the dict calculate_credibility_score returns
    baseline_comparison, \* the dict compare_to_baseline returns
    cohort_values,       \* a list of cohort values handed to sorted(...)[len(...)//2]
    median,              \* what that expression gave
    channel_id,          \* analyze_channel's arguments
    influencer_name,
    vi,                  \* index of the video the loop of analyze_channel is at
    responses,           \* what download_audio / transcribe_audio did for each video so far
    all_transcripts,
    video_metadata,
    llm,                 \* what the explanation service did
    ai_explanation,
    final_result,        \* the dict analyze_channel returns
    error,               \* the exception that ended analyze_channel, if one did
    accuracy_file,       \* historical_accuracy.json
    results_file,        \* analysis_results.json, as last written whole
    torn,                \* the files a failed write left without a whole JSON document
    history,             \* the calls made on services/storage.py directly, in order
    clock                \* datetime.utcnow()

extractVars == <<raw, metrics, predictions, evidence>>
scoreVars == <<nfrag, transcript, extractVars, historical_accuracy, cred, baseline_comparison>>
reqVars == <<channel_id, influencer_name>>
loopVars == <<vi, responses, all_transcripts, video_metadata>>
outVars == <<llm, ai_explanation, final_result, error>>
storeVars == <<accuracy_file, results_file, torn, history, clock>>
cohortVars == <<cohort_values, median>>
pipeVars == <<reqVars, cohortVars, loopVars, outVars, storeVars>>

vars == <<pc, scoreVars, pipeVars>>

None == "None"

-----------------------------------------------------------------------------
(* Strings: str.lower(), the `in` operator, \w and \b\w+\b.                *)

UpperChars == "ABCDEFGHIJKLMNOPQRSTUVWXYZ"
LowerChars == "abcdefghijklmnopqrstuvwxyz"
DigitChars == "0123456789"

CharAt(s, i) == SubSeq(s, i, i)

SetMin(S) == CHOOSE x \in S : \A y \in S : x <= y

SetMax(S) == CHOOSE x \in S : \A y \in S : y <= x

\* `w in text` for two Python strings
IsSubstring(w, text) ==
    \E i \in 1..(Len(text) - Len(w) + 1) : SubSeq(text, i, i + Len(w) - 1) = w

\* the lowercase of each uppercase character
LowerMap ==
    [c \in {CharAt(UpperChars, i) : i \in 1..Len(UpperChars)} |->
        CharAt(LowerChars, CHOOSE i \in 1..Len(UpperChars) : CharAt(UpperChars, i) = c)]

LowerChar(c) == IF c \in DOMAIN LowerMap THEN LowerMap[c] ELSE c

\* characters lo..hi of s lowercased, by halves to keep the recursion shallow
RECURSIVE LowerRange(_, _, _)
LowerRange(s, lo, hi) ==
    IF lo > hi THEN ""
    ELSE IF lo = hi THEN LowerChar(CharAt(s, lo))
    ELSE LET mid == (lo + hi) \div 2
         IN  LowerRange(s, lo, mid) \o LowerRange(s, mid + 1, hi)

\* str.lower()
Lower(s) == LowerRange(s, 1, Len(s))

CharsOf(s) == {CharAt(s, i) : i \in 1..Len(s)}

DigitSet == CharsOf(DigitChars)

\* the characters of the regex class \w
WordCharSet == CharsOf(LowerChars) \cup CharsOf(UpperChars) \cup DigitSet \cup {"_"}

IsDigit(c) == c \in DigitSet

IsWordChar(c) == c \in WordCharSet

\* len(re.findall(r'\b\w+\b', text)): the maximal runs of word characters
WordCount(text) ==
    Cardinality({i \in 1..Len(text) :
        /\ IsWordChar(CharAt(text, i))
        /\ (i = 1 \/ ~IsWordChar(CharAt(text, i - 1)))})

-----------------------------------------------------------------------------
(* Exact fractions and round().                                            *)

Frac(n, d) == [n |-> n, d |-> d]

\* a whole number of percentage points, in hundredths
Pct(x) == x * 100

\* mutant: the upper clamp forgotten
Min100_NoCap(f) == f

\* min(100, x) of the score lines
Min100(f) == IF f.n > 100 * f.d THEN Frac(100, 1) ELSE f

\* round-half-even of n/d (d > 0) to an integer
RoundHalfEven(n, d) ==
    LET q == n \div d
        r == n - q * d
    IN  IF 2 * r < d THEN q
        ELSE IF 2 * r > d THEN q + 1
        ELSE IF q % 2 = 0 THEN q ELSE q + 1

\* round(x, 1), the result in hundredths
Round1(f) == 10 * RoundHalfEven(f.n * 10, f.d)

-----------------------------------------------------------------------------
(* The lexicon tables of MetricsExtractor.                                 *)

INTENSITY_WORDS == {
    "massive", "explosive", "crash", "moon", "guaranteed", "insane",
    "never", "always", "huge", "enormous", "catastrophic", "incredible",
    "unbelievable", "shocking", "extreme", "violent", "brutal", "devastating",
    "parabolic", "exponential", "rocket", "skyrocket", "plummet", "collapse" }

HIGH_CERTAINTY == {
    "will", "guaranteed", "definitely", "certain", "surely", "absolutely",
    "without doubt", "no doubt", "100%", "must", "inevitable", "obviously" }

HEDGE_WORDS == {
    "might", "could", "possibly", "perhaps", "maybe", "probably",
    "likely", "uncertain", "unclear", "potentially", "may", "seems",
    "appears", "suggests", "indicates", "could be", "might be" }

TECHNICAL_TERMS == {
    "on-chain", "liquidity", "derivatives", "gamma", "basis", "arbitrage",
    "orderbook", "order book", "volatility", "correlation", "hedge",
    "futures", "perpetual", "funding rate", "open interest", "options",
    "delta", "implied volatility", "mark price", "index price",
    "liquidation", "leverage", "margin", "collateral", "defi", "tvl",
    "smart contract", "validator", "consensus", "hash rate", "difficulty",
    "mempool", "block", "transaction", "gas", "wei", "gwei", "slippage",
    "impermanent loss", "yield farming", "staking", "proof of stake",
    "proof of work", "eip", "fork", "halving", "difficulty adjustment" }

\* sum(1 for word in lexicon if word in text)
RECURSIVE CountIn(_, _)
CountIn(lexicon, text) ==
    IF lexicon = {} THEN 0
    ELSE LET word == CHOOSE w \in lexicon : TRUE
         IN  (IF IsSubstring(word, text) THEN 1 ELSE 0)
             + CountIn(lexicon \ {word}, text)

-----------------------------------------------------------------------------
(* MetricsExtractor._calculate_*                                           *)

calculate_emotional_intensity(text, word_count) ==
    IF word_count = 0 THEN Frac(0, 1)
    ELSE LET intensity_count == CountIn(INTENSITY_WORDS, text)
             \* (intensity_count / word_count) * 1000
             per_1k == Frac(intensity_count * 1000, word_count)
             \* (per_1k / 8.0) * 100
         IN  Min100(Frac(per_1k.n * 100, per_1k.d * 8))

\* mutant: no term present scored 0 like the other three sub-scores
calculate_certainty_index_Zero(text) ==
    LET certainty_count == CountIn(HIGH_CERTAINTY, text)
        hedge_count == CountIn(HEDGE_WORDS, text)
    IN  IF certainty_count + hedge_count = 0 THEN Frac(0, 1)
        ELSE Frac(certainty_count * 100, certainty_count + hedge_count)

\* mutant: the ratio taken of the hedge terms
calculate_certainty_index_Hedge(text) ==
    LET certainty_count == CountIn(HIGH_CERTAINTY, text)
        hedge_count == CountIn(HEDGE_WORDS, text)
    IN  IF certainty_count + hedge_count = 0 THEN Frac(50, 1)
        ELSE Frac(hedge_count * 100, certainty_count + hedge_count)

calculate_certainty_index(text) ==
    LET certainty_count == CountIn(HIGH_CERTAINTY, text)
        hedge_count == CountIn(HEDGE_WORDS, text)
    IN  IF certainty_count + hedge_count = 0 THEN Frac(50, 1)
        ELSE Frac(certainty_count * 100, certainty_count + hedge_count)

calculate_technical_depth(text, word_count) ==
    IF word_count = 0 THEN Frac(0, 1)
    ELSE LET unique_terms == {term \in TECHNICAL_TERMS : IsSubstring(term, text)}
             term_count == Cardinality(unique_terms)
             density == Frac(term_count * 1000, word_count)
             \* (density / 10.0) * 50
         IN  Min100(Frac(density.n * 50, density.d * 10))

-----------------------------------------------------------------------------
(* The regular expressions of PREDICTION_PATTERNS, matched the way re      *)
(* matches them: atoms in sequence, alternatives tried in the order        *)
(* written, + and ? greedy with backtracking.  A pattern is a sequence of  *)
(* atoms: "wb" is \b, "alt" an alternation of literals, "plus" one or more *)
(* of a class, "opt" zero or one, "one" exactly one, "rep" exactly n.      *)
(* re.IGNORECASE is had by matching against the lowercased text: the       *)
(* literals are lowercase and the classes do not tell case apart.          *)

Wb == [k |-> "wb"]
Alt(alts) == [k |-> "alt", alts |-> alts]
Plus(cls) == [k |-> "plus", cls |-> cls]
Opt(cls) == [k |-> "opt", cls |-> cls]
One(cls) == [k |-> "one", cls |-> cls]
Rep(cls, n) == [k |-> "rep", cls |-> cls, n |-> n]

PREDICTION_PATTERNS == <<
    \* \b(?:will|gonna|going to)\s+(?:hit|reach|go to|be|see)\s+[\$\d]
    << Wb, Alt(<<"will", "gonna", "going to">>), Plus("s"),
       Alt(<<"hit", "reach", "go to", "be", "see">>), Plus("s"), One("$d") >>,
    \* \$?\d+[kKmMbB]?\s+(?:by|before|within)\s+(?:next|the|end)
    << Opt("$"), Plus("d"), Opt("kmb"), Plus("s"),
       Alt(<<"by", "before", "within">>), Plus("s"), Alt(<<"next", "the", "end">>) >>,
    \* (?:bullish|bearish)\s+(?:for|on|into)\s+\d{4}
    << Alt(<<"bullish", "bearish">>), Plus("s"), Alt(<<"for", "on", "into">>),
       Plus("s"), Rep("d", 4) >>,
    \* expect\s+\w+\s+to\s+(?:hit|reach|go)
    << Alt(<<"expect">>), Plus("s"), Plus("w"), Plus("s"), Alt(<<"to">>),
       Plus("s"), Alt(<<"hit", "reach", "go">>) >>,
    \* predict\s+\w+\s+(?:will|to)
    << Alt(<<"predict">>), Plus("s"), Plus("w"), Plus("s"), Alt(<<"will", "to">>) >>,
    \* (?:we\'re|we are)\s+(?:going|headed)\s+(?:to|for|towards)
    << Alt(<<"we're", "we are">>), Plus("s"), Alt(<<"going", "headed">>),
       Plus("s"), Alt(<<"to", "for", "towards">>) >> >>

InClass(c, cls) ==
    CASE cls = "s" -> c \in {" ", "\t", "\n", "\r"}
      [] cls = "d" -> IsDigit(c)
      [] cls = "w" -> IsWordChar(c)
      [] cls = "$" -> c = "$"
      [] cls = "kmb" -> c \in {"k", "m", "b"}
      [] cls = "$d" -> c = "$" \/ IsDigit(c)

ClassAt(t, i, cls) == i >= 1 /\ i <= Len(t) /\ InClass(CharAt(t, i), cls)

\* \b before position i
WordBoundary(t, i) == ClassAt(t, i - 1, "w") # ClassAt(t, i, "w")

RECURSIVE RunLen(_, _, _)
RunLen(t, i, cls) == IF ClassAt(t, i, cls) THEN 1 + RunLen(t, i + 1, cls) ELSE 0

RECURSIVE MatchFrom(_, _, _, _), TryAlts(_, _, _, _, _), TryRun(_, _, _, _, _)
\* the position after the match of atoms k.. of pattern p at position i of t,
\* or 0 when they do not match there
MatchFrom(p, k, t, i) ==
    IF k > Len(p) THEN i
    ELSE LET a == p[k]
         IN  CASE a.k = "wb" ->
                    IF WordBoundary(t, i) THEN MatchFrom(p, k + 1, t, i) ELSE 0
               [] a.k = "alt" -> TryAlts(p, k, t, i, 1)
               [] a.k = "plus" -> TryRun(p, k, t, i, RunLen(t, i, a.cls))
               [] a.k = "opt" ->
                    LET taken == IF ClassAt(t, i, a.cls)
                                 THEN MatchFrom(p, k + 1, t, i + 1) ELSE 0
                    IN  IF taken # 0 THEN taken ELSE MatchFrom(p, k + 1, t, i)
               [] a.k = "one" ->
                    IF ClassAt(t, i, a.cls) THEN MatchFrom(p, k + 1, t, i + 1) ELSE 0
               [] a.k = "rep" ->
                    IF \A j \in 0..(a.n - 1) : ClassAt(t, i + j, a.cls)
                    THEN MatchFrom(p, k + 1, t, i + a.n) ELSE 0

TryAlts(p, k, t, i, j) ==
    IF j > Len(p[k].alts) THEN 0
    ELSE LET lit == p[k].alts[j]
             here == IF i + Len(lit) - 1 <= Len(t) /\ SubSeq(t, i, i + Len(lit) - 1) = lit
                     THEN MatchFrom(p, k + 1, t, i + Len(lit)) ELSE 0
         IN  IF here # 0 THEN here ELSE TryAlts(p, k, t, i, j + 1)

TryRun(p, k, t, i, n) ==
    IF n < 1 THEN 0
    ELSE LET here == MatchFrom(p, k + 1, t, i + n)
         IN  IF here # 0 THEN here ELSE TryRun(p, k, t, i, n - 1)

\* re.search(pattern, text, re.IGNORECASE) is not None, t the lowercased text
Search(p, t) == \E i \in 1..(Len(t) + 1) : MatchFrom(p, 1, t, i) # 0

RECURSIVE CountFrom(_, _, _)
CountFrom(p, t, pos) ==
    LET starts == {i \in pos..(Len(t) + 1) : MatchFrom(p, 1, t, i) # 0}
    IN  IF starts = {} THEN 0
        ELSE 1 + CountFrom(p, t, MatchFrom(p, 1, t, SetMin(starts)))

\* len(re.findall(pattern, text, re.IGNORECASE)), t the lowercased text: the
\* non-overlapping matches, leftmost first
FindallCount(p, t) == CountFrom(p, t, 1)

\* prediction_count of _calculate_prediction_density
RECURSIVE SumPatterns(_, _)
SumPatterns(t, k) ==
    IF k > Len(PREDICTION_PATTERNS) THEN 0
    ELSE FindallCount(PREDICTION_PATTERNS[k], t) + SumPatterns(t, k + 1)

calculate_prediction_density(text, word_count) ==
    IF word_count = 0 THEN Frac(0, 1)
    ELSE LET prediction_count == SumPatterns(Lower(text), 1)
             per_1k == Frac(prediction_count * 1000, word_count)
             \* (per_1k / 5.0) * 100
         IN  Min100(Frac(per_1k.n * 100, per_1k.d * 5))

-----------------------------------------------------------------------------
(* MetricsExtractor._extract_*: the evidence                               *)

\* the elements of a finite set of integers in ascending order
RECURSIVE Ascending(_)
Ascending(S) ==
    IF S = {} THEN <<>>
    ELSE LET least == SetMin(S) IN <<least>> \o Ascending(S \ {least})

IsTerminal(text, i) == i >= 1 /\ i <= Len(text) /\ CharAt(text, i) \in {".", "!", "?"}

\* re.split(r'[.!?]+', text): the pieces between the maximal runs of terminal
\* punctuation, the empty pieces at either end included
SplitSentences(text) ==
    LET starts == Ascending({i \in 1..Len(text) :
                      IsTerminal(text, i) /\ ~IsTerminal(text, i - 1)})
        ends == Ascending({i \in 1..Len(text) :
                      IsTerminal(text, i) /\ ~IsTerminal(text, i + 1)})
        n == Len(starts)
    IN  [k \in 1..(n + 1) |->
            SubSeq(text,
                   IF k = 1 THEN 1 ELSE ends[k - 1] + 1,
                   IF k = n + 1 THEN Len(text) ELSE starts[k] - 1)]

\* str.strip()
Strip(text) ==
    LET inked == {i \in 1..Len(text) : ~InClass(CharAt(text, i), "s")}
    IN  IF inked = {} THEN ""
        ELSE SubSeq(text, SetMin(inked), CHOOSE i \in inked : \A j \in inked : j <= i)

\* the for / break over PREDICTION_PATTERNS: whether any pattern is found
MatchesAnyPattern(sentence) ==
    LET t == Lower(sentence)
    IN  \E k \in 1..Len(PREDICTION_PATTERNS) : Search(PREDICTION_PATTERNS[k], t)

InSeq(x, seq) == \E i \in 1..Len(seq) : seq[i] = x

\* mutant: a sentence already collected is collected again
RECURSIVE CollectPredictions_NoDedup(_, _, _)
CollectPredictions_NoDedup(sentences, k, found) ==
    IF k > Len(sentences) THEN found
    ELSE LET cleaned == Strip(sentences[k])
         IN  CollectPredictions_NoDedup(sentences, k + 1,
                 IF MatchesAnyPattern(sentences[k]) /\ Len(cleaned) > 20
                 THEN Append(found, cleaned) ELSE found)

\* the loop of _extract_predictions from sentence k on, found the list so far
RECURSIVE CollectPredictions(_, _, _)
CollectPredictions(sentences, k, found) ==
    IF k > Len(sentences) THEN found
    ELSE LET cleaned == Strip(sentences[k])
         IN  CollectPredictions(sentences, k + 1,
                 IF /\ MatchesAnyPattern(sentences[k])
                    /\ Len(cleaned) > 20
                    /\ ~InSeq(cleaned, found)
                 THEN Append(found, cleaned) ELSE found)

\* seq[:n]
Take(seq, n) == SubSeq(seq, 1, IF Len(seq) < n THEN Len(seq) ELSE n)

extract_predictions(text) == Take(CollectPredictions(SplitSentences(text), 1, <<>>), 10)

\* the sentences, stripped, in which at least `least` terms of the lexicon occur
RECURSIVE CollectQuotes(_, _, _, _)
CollectQuotes(sentences, k, lexicon, least) ==
    IF k > Len(sentences) THEN <<>>
    ELSE (IF CountIn(lexicon, Lower(sentences[k])) >= least
          THEN <<Strip(sentences[k])>> ELSE <<>>)
         \o CollectQuotes(sentences, k + 1, lexicon, least)

extract_intensity_quotes(text) == CollectQuotes(SplitSentences(text), 1, INTENSITY_WORDS, 2)

extract_certainty_quotes(text) == CollectQuotes(SplitSentences(text), 1, HIGH_CERTAINTY, 1)

extract_technical_quotes(text) == CollectQuotes(SplitSentences(text), 1, TECHNICAL_TERMS, 2)

\* extraction_result['evidence']
Evidence(text) ==
    [ intensity_quotes |-> Take(extract_intensity_quotes(text), 5),
      certainty_quotes |-> Take(extract_certainty_quotes(text), 5),
      technical_quotes |-> Take(extract_technical_quotes(text), 5) ]

-----------------------------------------------------------------------------
(* MetricsExtractor.extract_all_metrics                                    *)

RawScores(text) ==
    LET text_lower == Lower(text)
        word_count == WordCount(text_lower)
    IN  [ emotional_intensity |-> calculate_emotional_intensity(text_lower, word_count),
          certainty_index |-> calculate_certainty_index(text_lower),
          technical_depth |-> calculate_technical_depth(text_lower, word_count),
          prediction_density |-> calculate_prediction_density(text, word_count),
          word_count |-> word_count ]

RoundedMetrics(r) ==
    [ emotional_intensity |-> Round1(r.emotional_intensity),
      certainty_index |-> Round1(r.certainty_index),
      technical_depth |-> Round1(r.technical_depth),
      prediction_density |-> Round1(r.prediction_density),
      word_count |-> r.word_count ]

-----------------------------------------------------------------------------
(* The extractor on its own: a transcript is built from an optional        *)
(* opening of filler words and a few fragments, then extract_all_metrics   *)
(* is applied.                                                             *)

\* the orchestrator's variables while a component is exercised on its own
PipelineIdle ==
    /\ cohort_values = None
    /\ median = None
    /\ channel_id = None
    /\ influencer_name = None
    /\ vi = 0
    /\ responses = <<>>
    /\ all_transcripts = <<>>
    /\ video_metadata = <<>>
    /\ llm = None
    /\ ai_explanation = None
    /\ final_result = None
    /\ error = None
    /\ accuracy_file = <<>>
    /\ results_file = <<>>
    /\ torn = {}
    /\ history = <<>>
    /\ clock = 0

MaxFragments == 2
FillerWords == 260

\* s repeated n times, by halves to keep the recursion shallow
RECURSIVE Repeat(_, _)
Repeat(s, n) ==
    IF n = 0 THEN ""
    ELSE IF n = 1 THEN s
    ELSE Repeat(s, n \div 2) \o Repeat(s, n - n \div 2)

Filler == Repeat("a ", FillerWords)

ForecastCount == 11

\* n sentences that differ in a number, each a prediction with two intensity
\* words, two certainty terms and two technical terms
RECURSIVE ForecastSentences(_)
ForecastSentences(n) ==
    IF n = 0 THEN ""
    ELSE ForecastSentences(n - 1)
         \o " Gas on the fork will hit $" \o ToString(n) \o "k, a guaranteed moon!"

\* the first forecast twice, then the others
Forecasts == ForecastSentences(1) \o ForecastSentences(ForecastCount)

Fragments == {
    "it will definitely moon, guaranteed",
    " Maybe it could, 100%.",
    " !!! ",
    " It MIGHT BE a gas hedge, no doubt",
    " BTC will hit $100k by the end of 2025.",
    " We're headed for a massive, brutal crash!",
    " Expect it to go up?" }

InitExtract ==
    /\ pc = "text"
    /\ nfrag = 0
    /\ transcript = ""
    /\ raw = None
    /\ metrics = None
    /\ predictions = None
    /\ evidence = None
    /\ historical_accuracy = None
    /\ cred = None
    /\ baseline_comparison = None
    /\ PipelineIdle

\* the transcript opens with the filler words
OpenWithFiller ==
    /\ pc = "text"
    /\ nfrag = 0
    /\ transcript' = Filler
    /\ nfrag' = 1
    /\ UNCHANGED <<pc, extractVars, historical_accuracy, cred, baseline_comparison, pipeVars>>

\* the transcript opens with the numbered forecasts
OpenWithForecasts ==
    /\ pc = "text"
    /\ nfrag = 0
    /\ transcript' = Forecasts
    /\ nfrag' = 1
    /\ UNCHANGED <<pc, extractVars, historical_accuracy, cred, baseline_comparison, pipeVars>>

AppendFragment ==
    /\ pc = "text"
    /\ nfrag < MaxFragments
    /\ \E f \in Fragments : transcript' = transcript \o f
    /\ nfrag' = nfrag + 1
    /\ UNCHANGED <<pc, extractVars, historical_accuracy, cred, baseline_comparison, pipeVars>>

\* extract_all_metrics(transcript)
ExtractAllMetrics ==
    /\ pc = "text"
    /\ raw' = RawScores(transcript)
    /\ metrics' = RoundedMetrics(raw')
    /\ predictions' = extract_predictions(transcript)
    /\ evidence' = Evidence(transcript)
    /\ pc' = "extracted"
    /\ UNCHANGED <<nfrag, transcript, historical_accuracy, cred, baseline_comparison, pipeVars>>

NextExtract == OpenWithFiller \/ OpenWithForecasts \/ AppendFragment \/ ExtractAllMetrics

SpecExtract == InitExtract /\ [][NextExtract]_vars

-----------------------------------------------------------------------------
(* calculate_credibility_score                                             *)

Abs(x) == IF x < 0 THEN 0 - x ELSE x

\* calibration_gap = certainty - historical_accuracy
CalibrationGap(m, accuracy) == m.certainty_index - accuracy

\* mutant: the lower threshold taken inclusively
CalibrationPenalty_Ge15(gap) ==
    IF gap > Pct(30) THEN 20
    ELSE IF gap >= Pct(15) THEN 10
    ELSE 0

\* mutant: the upper threshold taken inclusively
CalibrationPenalty_Ge30(gap) ==
    IF gap >= Pct(30) THEN 20
    ELSE IF gap > Pct(15) THEN 10
    ELSE 0

\* mutant: the size of the gap is penalised, whatever its sign
CalibrationPenalty_Abs(gap) ==
    IF Abs(gap) > Pct(30) THEN 20
    ELSE IF Abs(gap) > Pct(15) THEN 10
    ELSE 0

\* the if / elif / else on calibration_gap
CalibrationPenalty(gap) ==
    IF gap > Pct(30) THEN 20
    ELSE IF gap > Pct(15) THEN 10
    ELSE 0

\* mutant: the prediction term without the absolute value
CompositeScore_Signed(m, accuracy, penalty) ==
    Frac( accuracy * 40
          + (Pct(100) - m.emotional_intensity) * 25
          + m.technical_depth * 20
          + (Pct(100) - (m.prediction_density - Pct(50))) * 15
          - Pct(penalty) * 100,
          Pct(100) )

\* the weighted sum minus the penalty, before clamping
CompositeScore(m, accuracy, penalty) ==
    Frac( accuracy * 40
          + (Pct(100) - m.emotional_intensity) * 25
          + m.technical_depth * 20
          + (Pct(100) - Abs(m.prediction_density - Pct(50))) * 15
          - Pct(penalty) * 100,
          Pct(100) )

\* mutant: the lower clamp forgotten
Clamp_NoFloor(f) == Min100(f)

\* max(0, min(100, credibility_score))
Clamp(f) == IF f.n < 0 THEN Frac(0, 1) ELSE Min100(f)

\* mutant: overconfident taken at a gap of 30 already
Flags_OverconfidentGe(m, accuracy, gap) ==
    [ high_hype_low_accuracy |->
          m.emotional_intensity > Pct(70) /\ accuracy < Pct(50),
      overconfident |-> gap >= Pct(30),
      technical_but_inaccurate |->
          m.technical_depth > Pct(60) /\ accuracy < Pct(45),
      hedges_appropriately |->
          m.certainty_index < Pct(40) /\ accuracy > Pct(60),
      extreme_prediction_volume |-> m.prediction_density > Pct(80),
      calm_and_accurate |->
          m.emotional_intensity < Pct(40) /\ accuracy > Pct(65) ]

\* mutant: the accuracy comparison of hedges_appropriately turned round
Flags_HedgeFlipped(m, accuracy, gap) ==
    [ high_hype_low_accuracy |->
          m.emotional_intensity > Pct(70) /\ accuracy < Pct(50),
      overconfident |-> gap > Pct(30),
      technical_but_inaccurate |->
          m.technical_depth > Pct(60) /\ accuracy < Pct(45),
      hedges_appropriately |->
          m.certainty_index < Pct(40) /\ accuracy < Pct(60),
      extreme_prediction_volume |-> m.prediction_density > Pct(80),
      calm_and_accurate |->
          m.emotional_intensity < Pct(40) /\ accuracy > Pct(65) ]

Flags(m, accuracy, gap) ==
    [ high_hype_low_accuracy |->
          m.emotional_intensity > Pct(70) /\ accuracy < Pct(50),
      overconfident |-> gap > Pct(30),
      technical_but_inaccurate |->
          m.technical_depth > Pct(60) /\ accuracy < Pct(45),
      hedges_appropriately |->
          m.certainty_index < Pct(40) /\ accuracy > Pct(60),
      extreme_prediction_volume |-> m.prediction_density > Pct(80),
      calm_and_accurate |->
          m.emotional_intensity < Pct(40) /\ accuracy > Pct(65) ]

calculate_credibility_score(m, accuracy) ==
    LET gap == CalibrationGap(m, accuracy)
        penalty == CalibrationPenalty(gap)
        score == Clamp(CompositeScore(m, accuracy, penalty))
    IN  [ credibility_score |-> Round1(score),
          calibration_gap |-> Round1(Frac(gap, 100)),
          calibration_penalty |-> penalty,
          flags |-> Flags(m, accuracy, gap) ]

-----------------------------------------------------------------------------
(* services/baseline.py                                                    *)

\* the dict, its entries in the order they are written
BASELINE_INFLUENCERS == <<
    [ key |-> "benjamin_cowen", name |-> "Benjamin Cowen",
      metrics |-> [ emotional_intensity |-> Pct(25), certainty_index |-> Pct(35),
                    technical_depth |-> Pct(72), prediction_density |-> Pct(42),
                    historical_accuracy |-> Pct(65) ] ],
    [ key |-> "willy_woo", name |-> "Willy Woo",
      metrics |-> [ emotional_intensity |-> Pct(45), certainty_index |-> Pct(58),
                    technical_depth |-> Pct(85), prediction_density |-> Pct(55),
                    historical_accuracy |-> Pct(58) ] ],
    [ key |-> "raoul_pal", name |-> "Raoul Pal",
      metrics |-> [ emotional_intensity |-> Pct(68), certainty_index |-> Pct(72),
                    technical_depth |-> Pct(65), prediction_density |-> Pct(70),
                    historical_accuracy |-> Pct(52) ] ] >>

\* x put into the ascending sequence seq, before its equals
RECURSIVE Insert(_, _)
Insert(x, seq) ==
    IF seq = <<>> \/ x <= Head(seq) THEN <<x>> \o seq
    ELSE <<Head(seq)>> \o Insert(x, Tail(seq))

\* sorted(seq)
RECURSIVE Sorted(_)
Sorted(seq) == IF seq = <<>> THEN <<>> ELSE Insert(Head(seq), Sorted(Tail(seq)))

\* mutant: list.index taken from the end
IndexOf_Last(seq, x) == SetMax({i \in 1..Len(seq) : seq[i] = x}) - 1

\* seq.index(x), counted from 0
IndexOf(seq, x) == SetMin({i \in 1..Len(seq) : seq[i] = x}) - 1

\* mutant: the element before the middle for an even-sized list
MedianOf_LowerMiddle(values) == Sorted(values)[(Len(values) + 1) \div 2]

\* sorted(values)[len(values) // 2]
MedianOf(values) == Sorted(values)[Len(values) \div 2 + 1]

BaselineValues(field) ==
    [i \in 1..Len(BASELINE_INFLUENCERS) |-> BASELINE_INFLUENCERS[i].metrics[field]]

get_baseline_stats ==
    [ median_emotional_intensity |-> MedianOf(BaselineValues("emotional_intensity")),
      median_certainty_index |-> MedianOf(BaselineValues("certainty_index")),
      median_technical_depth |-> MedianOf(BaselineValues("technical_depth")),
      median_historical_accuracy |-> MedianOf(BaselineValues("historical_accuracy")),
      influencer_count |-> Len(BASELINE_INFLUENCERS) ]

\* (values.index(x) / len(values)) * 100 after append and sort, rounded to 0
\* decimals, in hundredths
PercentileRank(values, x) ==
    LET ranked == Sorted(Append(values, x))
    IN  Pct(RoundHalfEven(IndexOf(ranked, x) * 100, Len(ranked)))

compare_to_baseline(user_metrics, user_accuracy) ==
    LET baseline == get_baseline_stats
        floor == IF baseline.median_emotional_intensity > Pct(1)
                 THEN baseline.median_emotional_intensity ELSE Pct(1)
        baseline_gaps ==
            [i \in 1..Len(BASELINE_INFLUENCERS) |->
                BASELINE_INFLUENCERS[i].metrics.certainty_index
                - BASELINE_INFLUENCERS[i].metrics.historical_accuracy]
    IN  [ hype_multiplier |-> RoundHalfEven(user_metrics.emotional_intensity * 100, floor),
          certainty_deviation |->
              Round1(Frac(user_metrics.certainty_index - baseline.median_certainty_index, Pct(1))),
          technical_deviation |->
              Round1(Frac(user_metrics.technical_depth - baseline.median_technical_depth, Pct(1))),
          accuracy_percentile |->
              PercentileRank(BaselineValues("historical_accuracy"), user_accuracy),
          calibration_percentile |->
              PercentileRank(baseline_gaps, user_metrics.certainty_index - user_accuracy),
          baseline_stats |-> baseline ]

-----------------------------------------------------------------------------
(* The scorer on its own: a MetricSet and an accuracy are drawn from the   *)
(* values on and next to every threshold of the scorer, then               *)
(* calculate_credibility_score is applied.                                 *)

EmotionalValues == {0, 3990, 4000, 7000, 7010, 10000}
CertaintyValues == {0, 3990, 4000, 5000, 6500, 8000, 10000}
TechnicalValues == {0, 6000, 6010, 10000}
PredictionValues == {0, 5000, 8000, 8010, 10000}
AccuracyValues ==
    {0, 3499, 3500, 4499, 4500, 4999, 5000, 6000, 6001, 6500, 6501, 8499, 8500, 10000}

MetricSets ==
    [ emotional_intensity : EmotionalValues,
      certainty_index : CertaintyValues,
      technical_depth : TechnicalValues,
      prediction_density : PredictionValues,
      word_count : {100} ]

InitScore ==
    /\ pc = "input"
    /\ nfrag = 0
    /\ transcript = None
    /\ raw = None
    /\ metrics \in MetricSets
    /\ predictions = None
    /\ evidence = None
    /\ historical_accuracy \in AccuracyValues
    /\ cred = None
    /\ baseline_comparison = None
    /\ PipelineIdle

\* calculate_credibility_score(metrics, historical_accuracy)
Score ==
    /\ pc = "input"
    /\ cred' = calculate_credibility_score(metrics, historical_accuracy)
    /\ pc' = "scored"
    /\ UNCHANGED <<nfrag, transcript, extractVars, historical_accuracy, baseline_comparison,
                   pipeVars>>

NextScore == Score

SpecScore == InitScore /\ [][NextScore]_vars

-----------------------------------------------------------------------------
(* Properties of the scorer, checked under SpecScore.                      *)

Scored == pc = "scored"

\* the calibration gap of the scored inputs, before the result rounds it
InputGap == metrics.certainty_index - historical_accuracy

\* the weighted sum minus the penalty of the scored inputs, before clamping
InputComposite == CompositeScore(metrics, historical_accuracy, cred.calibration_penalty)

\* C1: for sub-scores and accuracy in [0,100] the returned credibility_score
\* is in [0,100], also where the weighted sum minus the penalty is out of range
C1_ScoreInRange ==
    Scored => cred.credibility_score >= 0 /\ cred.credibility_score <= Pct(100)

\* a scored input whose weighted sum minus the penalty is below 0
C1_Witness ==
    Scored /\ InputComposite.n < 0 /\ cred.credibility_score = 0

\* C4: the penalty is 20 for a gap above 30, else 10 for a gap above 15, else
\* 0; exactly one case applies, a gap of exactly 30 gets 10 and of exactly 15
\* gets 0, and the penalty is one of 0, 10, 20
C4_PenaltyCases ==
    Scored =>
        /\ cred.calibration_penalty \in {0, 10, 20}
        /\ (InputGap > Pct(30)) = (cred.calibration_penalty = 20)
        /\ (InputGap > Pct(15) /\ InputGap <= Pct(30)) = (cred.calibration_penalty = 10)
        /\ (InputGap <= Pct(15)) = (cred.calibration_penalty = 0)

\* a gap of exactly 30 scored with the lower penalty
C4_Witness == Scored /\ InputGap = Pct(30) /\ cred.calibration_penalty = 10

\* the penalties of the drawn inputs that have the gap of the scored one: those
\* that differ from it in the other three sub-scores, and those that reach the
\* same gap from another certainty and accuracy
SameGapPenalties ==
    { calculate_credibility_score(m, historical_accuracy).calibration_penalty :
        m \in {x \in MetricSets : x.certainty_index = metrics.certainty_index} }
    \cup
    { calculate_credibility_score(
          [metrics EXCEPT !.certainty_index = ca[1]], ca[2]).calibration_penalty :
        ca \in {x \in CertaintyValues \X AccuracyValues : x[1] - x[2] = InputGap} }

\* C5 as stated: the penalty depends on the gap alone, and a gap of 30.0 gives
\* 0, of 30.01 gives 20, of 15.0 gives 0, of 15.01 gives 10
C5_Original ==
    Scored =>
        /\ SameGapPenalties = {cred.calibration_penalty}
        /\ (InputGap = Pct(30) => cred.calibration_penalty = 0)
        /\ (InputGap = Pct(30) + 1 => cred.calibration_penalty = 20)
        /\ (InputGap = Pct(15) => cred.calibration_penalty = 0)
        /\ (InputGap = Pct(15) + 1 => cred.calibration_penalty = 10)

\* C5 amended: the penalty depends on the gap alone, and a gap of 30.0 gives
\* 10, of 30.01 gives 20, of 15.0 gives 0, of 15.01 gives 10
C5_StepFunction ==
    Scored =>
        /\ SameGapPenalties = {cred.calibration_penalty}
        /\ (InputGap = Pct(30) => cred.calibration_penalty = 10)
        /\ (InputGap = Pct(30) + 1 => cred.calibration_penalty = 20)
        /\ (InputGap = Pct(15) => cred.calibration_penalty = 0)
        /\ (InputGap = Pct(15) + 1 => cred.calibration_penalty = 10)

\* certainty 80.0 against accuracy 50.0: a gap of 30.0, penalised by 10
C5_Witness ==
    /\ Scored
    /\ metrics.certainty_index = Pct(80)
    /\ historical_accuracy = Pct(50)
    /\ cred.calibration_penalty = 10

\* C6 as stated: overconfident is true iff the calibration_gap reported in
\* the same result is greater than 30
C6_Original ==
    Scored => (cred.flags.overconfident = (cred.calibration_gap > Pct(30)))

\* C6 amended: overconfident is true iff certainty_index - historical_accuracy,
\* the gap before the result rounds it to one decimal, is greater than 30,
\* whatever the other flags; the reported gap is then at least 30.0
C6_OverconfidentIffGap ==
    Scored =>
        /\ cred.flags.overconfident = (InputGap > Pct(30))
        /\ (cred.flags.overconfident => cred.calibration_gap >= Pct(30))
        /\ (cred.calibration_gap > Pct(30) => cred.flags.overconfident)

\* overconfident with a reported gap of exactly 30.0
C6_Witness ==
    Scored /\ cred.flags.overconfident /\ cred.calibration_gap = Pct(30)

FlagNames == DOMAIN Flags(CHOOSE m \in MetricSets : TRUE, 0, 0)

\* the flag vectors the drawn inputs produce
ReachableFlags ==
    { calculate_credibility_score(m, a).flags : m \in MetricSets, a \in AccuracyValues }

\* C7 as stated: some valid input sets all six flags, some input clears all
\* six, and no flag constrains another: from any result, each flag alone can
\* be turned over by another input
C7_Original ==
    Scored =>
        /\ [n \in FlagNames |-> TRUE] \in ReachableFlags
        /\ [n \in FlagNames |-> FALSE] \in ReachableFlags
        /\ \A n \in FlagNames : [cred.flags EXCEPT ![n] = ~@] \in ReachableFlags

\* C7 amended: the six flags may all be false but never all true:
\* hedges_appropriately excludes high_hype_low_accuracy, overconfident and
\* technical_but_inaccurate, calm_and_accurate excludes high_hype_low_accuracy
\* and technical_but_inaccurate, and at most four flags hold at once
C7_FlagsExclude ==
    Scored =>
        LET f == cred.flags
        IN  /\ DOMAIN f = FlagNames /\ Cardinality(FlagNames) = 6
            /\ \A n \in FlagNames : f[n] \in BOOLEAN
            /\ ~(f.hedges_appropriately /\ f.high_hype_low_accuracy)
            /\ ~(f.hedges_appropriately /\ f.overconfident)
            /\ ~(f.hedges_appropriately /\ f.technical_but_inaccurate)
            /\ ~(f.calm_and_accurate /\ f.high_hype_low_accuracy)
            /\ ~(f.calm_and_accurate /\ f.technical_but_inaccurate)
            /\ Cardinality({n \in FlagNames : f[n]}) <= 4

\* a result with four flags set, while another input clears all six
C7_Witness ==
    /\ Scored
    /\ Cardinality({n \in FlagNames : cred.flags[n]}) = 4
    /\ [n \in FlagNames |-> FALSE] \in ReachableFlags

\* the formula of the claim on the scored inputs, clamped to [0,100], in
\* millionths of a point
FormulaScore ==
    LET sum == 40 * historical_accuracy
               + 25 * (Pct(100) - metrics.emotional_intensity)
               + 20 * metrics.technical_depth
               + 15 * (Pct(100) - Abs(metrics.prediction_density - Pct(50)))
               - 100 * Pct(cred.calibration_penalty)
    IN  IF sum < 0 THEN 0
        ELSE IF sum > 100 * Pct(100) THEN 100 * Pct(100)
        ELSE sum

\* C16 as stated: the returned score is the clamped formula and the returned
\* gap is certainty_index - historical_accuracy
C16_Original ==
    Scored =>
        /\ Pct(cred.credibility_score) = FormulaScore
        /\ cred.calibration_gap = InputGap

\* C16 amended: the returned score is the clamped formula rounded to one
\* decimal, and the returned gap is certainty_index - historical_accuracy
\* rounded to one decimal
C16_RoundedFormula ==
    Scored =>
        /\ cred.credibility_score % 10 = 0
        /\ Abs(Pct(cred.credibility_score) - FormulaScore) <= 500
        /\ FormulaScore % 1000 = 0 => Pct(cred.credibility_score) = FormulaScore
        /\ cred.calibration_gap % 10 = 0
        /\ Abs(cred.calibration_gap - InputGap) <= 5
        /\ InputGap % 10 = 0 => cred.calibration_gap = InputGap

\* an accuracy of 49.99 scored with prediction density away from 50: neither
\* the score nor the gap is returned unrounded
C16_Witness ==
    /\ Scored
    /\ historical_accuracy = 4999
    /\ metrics.prediction_density > Pct(50)
    /\ FormulaScore > 0
    /\ Pct(cred.credibility_score) # FormulaScore
    /\ cred.calibration_gap # InputGap

\* C18: for a fixed MetricSet the credibility_score does not decrease, and
\* the calibration penalty does not increase, as historical_accuracy grows
C18_MonotoneInAccuracy ==
    Scored =>
        \A a2 \in AccuracyValues :
            a2 >= historical_accuracy =>
                LET higher == calculate_credibility_score(metrics, a2)
                IN  /\ higher.credibility_score >= cred.credibility_score
                    /\ higher.calibration_penalty <= cred.calibration_penalty

\* a MetricSet scored with the full penalty for which a higher accuracy
\* brings the penalty to 0 and raises the score
C18_Witness ==
    /\ Scored
    /\ cred.calibration_penalty = 20
    /\ \E a2 \in AccuracyValues :
           /\ a2 > historical_accuracy
           /\ calculate_credibility_score(metrics, a2).calibration_penalty = 0
           /\ calculate_credibility_score(metrics, a2).credibility_score
                  > cred.credibility_score

-----------------------------------------------------------------------------
(* Properties of the extractor, checked under SpecExtract.                 *)

Extracted == pc = "extracted"

SubScores ==
    {"emotional_intensity", "certainty_index", "technical_depth", "prediction_density"}

\* C2: each of the four sub-scores extract_all_metrics returns lies in
\* [0,100], and word_count is a non-negative integer
C2_SubScoresInRange ==
    Extracted =>
        /\ \A k \in SubScores : metrics[k] >= 0 /\ metrics[k] <= Pct(100)
        /\ metrics.word_count \in Nat

\* an extraction where a density sub-score is strictly inside the range while
\* another was cut down to 100
C2_Witness ==
    /\ Extracted
    /\ \E k \in SubScores \ {"certainty_index"} : metrics[k] > 0 /\ metrics[k] < Pct(100)
    /\ \E k \in SubScores : raw[k] = Frac(100, 1) /\ metrics[k] = Pct(100)

\* C3 as stated: with word_count = 0 all four sub-scores are exactly 0.0
C3_Original ==
    Extracted /\ metrics.word_count = 0 =>
        \A k \in SubScores : metrics[k] = 0

\* C3 amended: with word_count = 0 the extraction returns exactly 0.0 for
\* emotional_intensity, technical_depth and prediction_density, and the neutral
\* 50.0 for certainty_index
C3_ZeroWordCount ==
    Extracted /\ metrics.word_count = 0 =>
        /\ metrics.emotional_intensity = 0
        /\ metrics.technical_depth = 0
        /\ metrics.prediction_density = 0
        /\ metrics.certainty_index = Pct(50)

\* the empty transcript extracted
C3_Witness ==
    /\ Extracted
    /\ metrics.word_count = 0
    /\ transcript = ""
    /\ metrics.certainty_index = Pct(50)

\* the distinct terms of a lexicon present in the lowercased transcript
Present(lexicon) == {w \in lexicon : IsSubstring(w, Lower(transcript))}

\* C8: with c distinct high-certainty terms and h distinct hedge terms present,
\* the certainty index is exactly 50 when c + h = 0 and c/(c+h)*100 otherwise,
\* so it is above 50 whenever c > h, as for the example sentence
C8_CertaintyIndex ==
    Extracted =>
        LET c == Cardinality(Present(HIGH_CERTAINTY))
            h == Cardinality(Present(HEDGE_WORDS))
            index == raw.certainty_index
        IN  /\ (c + h = 0) => (index.n = 50 * index.d /\ metrics.certainty_index = Pct(50))
            /\ (c + h > 0) => index.n * (c + h) = c * 100 * index.d
            /\ (c > h) => (index.n > 50 * index.d /\ metrics.certainty_index > Pct(50))
            /\ metrics.certainty_index = Round1(index)

\* the example sentence extracted: three certainty terms, no hedge term
C8_Witness ==
    /\ Extracted
    /\ transcript = "it will definitely moon, guaranteed"
    /\ Cardinality(Present(HIGH_CERTAINTY)) = 3
    /\ Present(HEDGE_WORDS) = {}
    /\ metrics.certainty_index > Pct(50)

-----------------------------------------------------------------------------
(* services/storage.py: the accuracy store as the orchestrator reads it, and *)
(* the result store as it writes it.  A file is a function from the          *)
(* channel ids it holds to their records.                                    *)

\* get_historical_accuracy(channel_id) on the file's content
get_historical_accuracy(file, channel) ==
    IF channel \in DOMAIN file THEN file[channel].accuracy ELSE Pct(50)

\* save_analysis_result: result['analyzed_at'] = utcnow(); data[channel_id] = result
Stamped(result, now) == [analyzed_at |-> now] @@ result

StoreResult(file, channel, result) ==
    [c \in DOMAIN file \cup {channel} |-> IF c = channel THEN result ELSE file[c]]

\* the sentences of the transcript, trimmed
TrimmedSentences ==
    LET sentences == SplitSentences(transcript)
    IN  [k \in 1..Len(sentences) |-> Strip(sentences[k])]

\* the trimmed sentences at the places in S, in transcript order, n at most
FirstOf(S, n) ==
    LET places == Take(Ascending(S), n)
    IN  [i \in 1..Len(places) |-> TrimmedSentences[places[i]]]

\* the places of the sentences with at least `least` terms of the lexicon
QuotePlaces(lexicon, least) ==
    {k \in 1..Len(TrimmedSentences) : CountIn(lexicon, Lower(TrimmedSentences[k])) >= least}

\* the places of the sentences that match a prediction pattern, are longer
\* than 20 characters and do not repeat an earlier such sentence
PredictionPlaces ==
    LET fit == {k \in 1..Len(TrimmedSentences) :
                   /\ MatchesAnyPattern(TrimmedSentences[k])
                   /\ Len(TrimmedSentences[k]) > 20}
    IN  {k \in fit : \A j \in fit : j < k => TrimmedSentences[j] # TrimmedSentences[k]}

\* C17: the three quote lists have at most 5 entries and predictions at most
\* 10, all in the order of the transcript's sentences; predictions are the
\* first 10 pairwise distinct trimmed sentences that match a prediction
\* pattern and are longer than 20 characters; without matches the lists are
\* empty
C17_EvidenceBoundedOrdered ==
    Extracted =>
        /\ Len(predictions) <= 10
        /\ predictions = FirstOf(PredictionPlaces, 10)
        /\ \A i, j \in 1..Len(predictions) : i # j => predictions[i] # predictions[j]
        /\ Len(evidence.intensity_quotes) <= 5
        /\ Len(evidence.certainty_quotes) <= 5
        /\ Len(evidence.technical_quotes) <= 5
        /\ evidence.intensity_quotes = FirstOf(QuotePlaces(INTENSITY_WORDS, 2), 5)
        /\ evidence.certainty_quotes = FirstOf(QuotePlaces(HIGH_CERTAINTY, 1), 5)
        /\ evidence.technical_quotes = FirstOf(QuotePlaces(TECHNICAL_TERMS, 2), 5)
        /\ PredictionPlaces = {} => predictions = <<>>

\* more than 10 distinct predictions and one repeated, more than 5 sentences
\* for each quote list: the lists are cut at 10 and at 5
C17_Witness ==
    /\ Extracted
    /\ Cardinality(PredictionPlaces) > 10
    /\ \E j, k \in 1..Len(TrimmedSentences) :
           /\ j < k
           /\ k \notin PredictionPlaces
           /\ TrimmedSentences[j] = TrimmedSentences[k]
           /\ MatchesAnyPattern(TrimmedSentences[k])
    /\ Len(predictions) = 10
    /\ Cardinality(QuotePlaces(INTENSITY_WORDS, 2)) > 5
    /\ Len(evidence.intensity_quotes) = 5
    /\ Len(evidence.certainty_quotes) = 5
    /\ Len(evidence.technical_quotes) = 5
    /\ predictions[1] # predictions[2]

-----------------------------------------------------------------------------
(* services/storage.py with its JSON files.  A Python value is a record     *)
(* [t, v] whose t names its type; a float is held in hundredths.  A JSON    *)
(* value is such a record with the types of JSON.  A file holds the members *)
(* of the JSON object at its top: a function from channel ids to values.    *)

PyNone == [t |-> "NoneType"]
PyStr(x) == [t |-> "str", v |-> x]
PyInt(x) == [t |-> "int", v |-> x]
PyFloat(x) == [t |-> "float", v |-> x]
PyBool(x) == [t |-> "bool", v |-> x]
PyList(x) == [t |-> "list", v |-> x]
PyTuple(x) == [t |-> "tuple", v |-> x]
PyDict(x) == [t |-> "dict", v |-> x]

\* json.dump: dict to object, list and tuple to array, int and float to a
\* number written without and with a fraction part
RECURSIVE JsonDump(_)
JsonDump(x) ==
    CASE x.t = "dict" -> [t |-> "object", v |-> [k \in DOMAIN x.v |-> JsonDump(x.v[k])]]
      [] x.t \in {"list", "tuple"} ->
             [t |-> "array", v |-> [i \in DOMAIN x.v |-> JsonDump(x.v[i])]]
      [] x.t = "str" -> [t |-> "string", v |-> x.v]
      [] x.t = "int" -> [t |-> "number", v |-> x.v * 100, fraction |-> FALSE]
      [] x.t = "float" -> [t |-> "number", v |-> x.v, fraction |-> TRUE]
      [] x.t = "bool" -> [t |-> IF x.v THEN "true" ELSE "false"]
      [] x.t = "NoneType" -> [t |-> "null"]

\* mutant: a number whose value is whole is read as an int
RECURSIVE JsonLoad_WholeAsInt(_)
JsonLoad_WholeAsInt(j) ==
    CASE j.t = "object" ->
             PyDict([k \in DOMAIN j.v |-> JsonLoad_WholeAsInt(j.v[k])])
      [] j.t = "array" -> PyList([i \in DOMAIN j.v |-> JsonLoad_WholeAsInt(j.v[i])])
      [] j.t = "string" -> PyStr(j.v)
      [] j.t = "number" -> IF j.v % 100 = 0 THEN PyInt(j.v \div 100) ELSE PyFloat(j.v)
      [] j.t = "true" -> PyBool(TRUE)
      [] j.t = "false" -> PyBool(FALSE)
      [] j.t = "null" -> PyNone

\* json.load: object to dict, array to list, a number to float when it is
\* written with a fraction part and to int otherwise
RECURSIVE JsonLoad(_)
JsonLoad(j) ==
    CASE j.t = "object" -> PyDict([k \in DOMAIN j.v |-> JsonLoad(j.v[k])])
      [] j.t = "array" -> PyList([i \in DOMAIN j.v |-> JsonLoad(j.v[i])])
      [] j.t = "string" -> PyStr(j.v)
      [] j.t = "number" -> IF j.fraction THEN PyFloat(j.v) ELSE PyInt(j.v \div 100)
      [] j.t = "true" -> PyBool(TRUE)
      [] j.t = "false" -> PyBool(FALSE)
      [] j.t = "null" -> PyNone

\* with open(file, 'r') as f: data = json.load(f)
ReadFile(file) == JsonLoad([t |-> "object", v |-> file])

\* with open(file, 'w') as f: json.dump(data, f, indent=2)
WriteFile(data) == JsonDump(data).v

\* datetime.utcnow().isoformat()
Isoformat(now) == "T" \o ToString(now)

\* mutant: the file is rewritten with the new entry alone
save_analysis_result_Replaces(file, channel, result, now) ==
    LET stamped == PyDict(Stamped(result.v, PyStr(Isoformat(now))))
    IN  WriteFile(PyDict([c \in {channel} |-> stamped]))

\* save_analysis_result(channel_id, result): the file afterwards
save_analysis_result(file, channel, result, now) ==
    LET data == ReadFile(file)
        stamped == PyDict(Stamped(result.v, PyStr(Isoformat(now))))
    IN  WriteFile(PyDict(StoreResult(data.v, channel, stamped)))

\* get_analysis_result(channel_id): data.get(channel_id)
get_analysis_result(file, channel) ==
    LET data == ReadFile(file)
    IN  IF channel \in DOMAIN data.v THEN data.v[channel] ELSE PyNone

\* list_all_analyses()
list_all_analyses(file) == ReadFile(file)

\* mutant: the file is rewritten with the new record alone
save_historical_accuracy_Replaces(file, channel, accuracy, now) ==
    [c \in {channel} |-> [accuracy |-> accuracy, updated_at |-> now]]

\* save_historical_accuracy(channel_id, accuracy): the file afterwards; a
\* number is written and read back as the same number
save_historical_accuracy(file, channel, accuracy, now) ==
    StoreResult(file, channel, [accuracy |-> accuracy, updated_at |-> now])

-----------------------------------------------------------------------------
(* services/llm_analysis.py                                                *)

\* the f-string of the except branch, as its parts
FallbackExplanation(credibility_score, calibration_gap) ==
    << "Credibility score: ", credibility_score, "/100. Calibration gap of ",
       calibration_gap, " suggests ",
       IF calibration_gap > Pct(20) THEN "overconfidence" ELSE "reasonable calibration",
       ". Analysis service temporarily unavailable." >>

-----------------------------------------------------------------------------
(* services/app_logic.py                                                   *)

VIDEO_URLS == <<
    "https://www.youtube.com/watch?v=abc123",
    "https://www.youtube.com/watch?v=def456",
    "https://www.youtube.com/watch?v=ghi789" >>

\* s.split(sep)[-1]: what follows the last sep in s, or s when it has none
LastPart(s, sep) ==
    LET at == {i \in 1..(Len(s) - Len(sep) + 1) : SubSeq(s, i, i + Len(sep) - 1) = sep}
    IN  IF at = {} THEN s
        ELSE LET last == CHOOSE i \in at : \A j \in at : j <= i
             IN  SubSeq(s, last + Len(sep), Len(s))

\* s[:n]
Prefix(s, n) == SubSeq(s, 1, IF Len(s) < n THEN Len(s) ELSE n)

get_video_list(video_urls) ==
    [i \in 1..Len(video_urls) |->
        LET video_id == LastPart(video_urls[i], "v=")
        IN  [video_id |-> video_id, title |-> "Video " \o Prefix(video_id, 6)]]

videos == get_video_list(VIDEO_URLS)

\* " ".join(parts)
RECURSIVE JoinSpace(_)
JoinSpace(parts) ==
    IF parts = <<>> THEN ""
    ELSE IF Len(parts) = 1 THEN parts[1]
    ELSE parts[1] \o " " \o JoinSpace(Tail(parts))

\* len(text.split())
SplitCount(text) ==
    Cardinality({i \in 1..Len(text) :
        /\ ~InClass(CharAt(text, i), "s")
        /\ (i = 1 \/ InClass(CharAt(text, i - 1), "s"))})

Channels == {"UC_a", "UC_b"}
Names == {None, "Ann"}

\* what transcribe_audio can return for a video (its result is stripped)
TranscriptPool == {
    "",
    "it will definitely moon, guaranteed",
    "Maybe BTC will hit $100k by the end of 2025." }

\* the accuracy store an analysis can meet: empty, or a record for one channel
AccuracyFiles ==
    { <<>> } \cup { [c \in {"UC_a"} |-> [accuracy |-> a, updated_at |-> 0]] : a \in {4999} }

\* what the narrative service can answer
NarrativeTexts == { "This influencer's score reflects ..." }

Init ==
    /\ pc = "videos"
    /\ channel_id \in Channels
    /\ influencer_name \in Names
    /\ cohort_values = None
    /\ median = None
    /\ vi = 1
    /\ responses = <<>>
    /\ all_transcripts = <<>>
    /\ video_metadata = <<>>
    /\ nfrag = 0
    /\ transcript = None
    /\ raw = None
    /\ metrics = None
    /\ predictions = None
    /\ evidence = None
    /\ historical_accuracy = None
    /\ cred = None
    /\ baseline_comparison = None
    /\ llm = None
    /\ ai_explanation = None
    /\ final_result = None
    /\ error = None
    /\ accuracy_file \in AccuracyFiles
    /\ results_file = <<>>
    /\ torn = {}
    /\ history = <<>>
    /\ clock = 1

\* one pass of the loop body whose try block completes
VideoTranscribed ==
    /\ pc = "videos"
    /\ vi <= Len(videos)
    /\ \E t \in TranscriptPool :
        /\ all_transcripts' = Append(all_transcripts, t)
        /\ video_metadata' = Append(video_metadata,
               [ title |-> videos[vi].title,
                 video_id |-> videos[vi].video_id,
                 word_count |-> SplitCount(t) ])
        /\ responses' = Append(responses, [ok |-> TRUE, transcript |-> t])
    /\ vi' = vi + 1
    /\ UNCHANGED <<pc, scoreVars, reqVars, cohortVars, outVars, storeVars>>

\* mutant: the exception of a video is not caught and ends the analysis
VideoFailed_Aborts ==
    /\ pc = "videos"
    /\ vi <= Len(videos)
    /\ \E stage \in {"download_audio", "transcribe_audio"} :
        /\ responses' = Append(responses, [ok |-> FALSE, stage |-> stage])
        /\ error' = [stage |-> stage]
    /\ pc' = "raised"
    /\ UNCHANGED <<vi, all_transcripts, video_metadata, llm, ai_explanation, final_result,
                   scoreVars, reqVars, cohortVars, storeVars>>

\* one pass of the loop body where download_audio or transcribe_audio raises:
\* the except branch prints and the loop goes on
VideoFailed ==
    /\ pc = "videos"
    /\ vi <= Len(videos)
    /\ \E stage \in {"download_audio", "transcribe_audio"} :
        responses' = Append(responses, [ok |-> FALSE, stage |-> stage])
    /\ vi' = vi + 1
    /\ UNCHANGED <<pc, all_transcripts, video_metadata, scoreVars, reqVars, cohortVars, outVars,
                   storeVars>>

\* after the loop: the join, extract_all_metrics, get_historical_accuracy,
\* calculate_credibility_score and compare_to_baseline
Analyse ==
    /\ pc = "videos"
    /\ vi > Len(videos)
    /\ transcript' = JoinSpace(all_transcripts)
    /\ raw' = RawScores(transcript')
    /\ metrics' = RoundedMetrics(raw')
    /\ predictions' = extract_predictions(transcript')
    /\ evidence' = Evidence(transcript')
    /\ historical_accuracy' = get_historical_accuracy(accuracy_file, channel_id)
    /\ cred' = calculate_credibility_score(metrics', historical_accuracy')
    /\ baseline_comparison' = compare_to_baseline(metrics', historical_accuracy')
    /\ pc' = "explain"
    /\ UNCHANGED <<nfrag, pipeVars>>

\* after the loop: get_historical_accuracy raises (the file cannot be opened,
\* or does not parse) and the exception leaves analyze_channel
AccuracyLookupRaises ==
    /\ pc = "videos"
    /\ vi > Len(videos)
    /\ error' = [stage |-> "get_historical_accuracy"]
    /\ pc' = "raised"
    /\ UNCHANGED <<llm, ai_explanation, final_result, scoreVars, reqVars, cohortVars, loopVars, storeVars>>

\* generate_credibility_explanation: anthropic.Anthropic(...) raises; the
\* call stands before the try block, so the exception leaves analyze_channel
ExplainClientRaises ==
    /\ pc = "explain"
    /\ llm' = "client raised"
    /\ error' = [stage |-> "generate_credibility_explanation"]
    /\ pc' = "raised"
    /\ UNCHANGED <<ai_explanation, final_result, scoreVars, reqVars, cohortVars, loopVars, storeVars>>

\* generate_credibility_explanation: anything in the try block raises and the
\* except branch returns the templated summary
ExplainRequestRaises ==
    /\ pc = "explain"
    /\ llm' = "request raised"
    /\ ai_explanation' = FallbackExplanation(cred.credibility_score, cred.calibration_gap)
    /\ pc' = "assemble"
    /\ UNCHANGED <<final_result, error, scoreVars, reqVars, cohortVars, loopVars, storeVars>>

\* generate_credibility_explanation: the service answers
ExplainAnswered ==
    /\ pc = "explain"
    /\ llm' = "answered"
    /\ \E text \in NarrativeTexts : ai_explanation' = text
    /\ pc' = "assemble"
    /\ UNCHANGED <<final_result, error, scoreVars, reqVars, cohortVars, loopVars, storeVars>>

\* the dict assembled at the end of analyze_channel
Assembled ==
    [ influencer_name |-> IF influencer_name = None THEN "Unknown" ELSE influencer_name,
      channel_id |-> channel_id,
      analysis_summary |->
          [ videos_analyzed |-> Len(all_transcripts),
            total_words |-> SplitCount(transcript) ],
      metrics |-> metrics,
      credibility_score |-> cred.credibility_score,
      calibration_gap |-> cred.calibration_gap,
      historical_accuracy |-> historical_accuracy,
      flags |-> cred.flags,
      baseline_comparison |-> baseline_comparison,
      predictions |-> Take(predictions, 10),
      evidence |-> evidence,
      ai_explanation |-> ai_explanation,
      video_metadata |-> video_metadata ]

\* final_result is assembled, save_analysis_result stamps and stores it, and
\* analyze_channel returns it
AssembleAndSave ==
    /\ pc = "assemble"
    /\ final_result' = Stamped(Assembled, clock)
    /\ results_file' = StoreResult(results_file, channel_id, final_result')
    /\ clock' = clock + 1
    /\ pc' = "returned"
    /\ UNCHANGED <<llm, ai_explanation, error, accuracy_file, torn, history, scoreVars,
                   reqVars, cohortVars, loopVars>>

\* save_analysis_result raises before it writes: ensure_storage, the open for
\* reading or json.load fails; the file is as it was and nothing is returned
SaveReadRaises ==
    /\ pc = "assemble"
    /\ error' = [stage |-> "save_analysis_result"]
    /\ pc' = "raised"
    /\ UNCHANGED <<llm, ai_explanation, final_result, scoreVars, reqVars, cohortVars, loopVars, storeVars>>

\* save_analysis_result raises while it writes: open(RESULTS_FILE, 'w') has
\* emptied the file and json.dump fails part of the way; nothing is returned
SaveWriteRaises ==
    /\ pc = "assemble"
    /\ torn' = torn \cup {"analysis_results.json"}
    /\ error' = [stage |-> "save_analysis_result"]
    /\ pc' = "raised"
    /\ UNCHANGED <<llm, ai_explanation, final_result, accuracy_file, results_file, history,
                   clock, scoreVars, reqVars, cohortVars, loopVars>>

Next ==
    \/ VideoTranscribed
    \/ VideoFailed
    \/ Analyse
    \/ AccuracyLookupRaises
    \/ ExplainClientRaises
    \/ ExplainRequestRaises
    \/ ExplainAnswered
    \/ AssembleAndSave
    \/ SaveReadRaises
    \/ SaveWriteRaises

Spec == Init /\ [][Next]_vars

-----------------------------------------------------------------------------
(* Properties of the orchestrator, checked under Spec.                     *)

\* the transcripts of the videos that succeeded so far, in video order
OkTranscripts ==
    LET ok == SelectSeq(responses, LAMBDA r : r.ok)
    IN  [i \in 1..Len(ok) |-> ok[i].transcript]

\* the ids of the videos that succeeded so far, in video order
OkVideoIds ==
    LET idx == SelectSeq([i \in 1..Len(responses) |-> i], LAMBDA i : responses[i].ok)
    IN  [i \in 1..Len(idx) |-> videos[idx[i]].video_id]

\* the first n of parts with one space between neighbours
RECURSIVE SpaceJoined(_, _)
SpaceJoined(parts, n) ==
    IF n = 0 THEN ""
    ELSE IF n = 1 THEN parts[1]
    ELSE SpaceJoined(parts, n - 1) \o " " \o parts[n]

\* C9: the videos are taken one at a time in list order; a failing video is
\* skipped and never ends the analysis; the combined transcript is the
\* space-join, in video order, of the transcripts of the videos that
\* succeeded, and videos_analyzed and the length of video_metadata both equal
\* their number
C9_FailedVideosSkipped ==
    /\ pc = "videos" => Len(responses) = vi - 1
    /\ pc # "videos" => Len(responses) = Len(videos)
    /\ Len(all_transcripts) = Len(OkTranscripts)
    /\ Len(video_metadata) = Len(OkTranscripts)
    /\ pc \in {"explain", "assemble", "returned"} =>
           transcript = SpaceJoined(OkTranscripts, Len(OkTranscripts))
    /\ pc = "returned" =>
           /\ final_result.analysis_summary.videos_analyzed = Len(OkTranscripts)
           /\ Len(final_result.video_metadata) = Len(OkTranscripts)
           /\ [i \in 1..Len(OkVideoIds) |-> final_result.video_metadata[i].video_id]
                  = OkVideoIds

\* a returned analysis whose second video failed while the first and the third
\* gave text
C9_Witness ==
    /\ pc = "returned"
    /\ responses[1].ok /\ ~responses[2].ok /\ responses[3].ok
    /\ responses[1].transcript # "" /\ responses[3].transcript # ""
    /\ transcript = responses[1].transcript \o " " \o responses[3].transcript
    /\ final_result.analysis_summary.videos_analyzed = 2
    /\ Len(final_result.video_metadata) = 2

\* C10: whenever explanation generation fails in any way,
\* generate_credibility_explanation returns the templated summary of the
\* computed score and gap, and so the result analyze_channel returns carries
\* that verdict in ai_explanation
C10_FallbackOnAnyFailure ==
    llm \in {"client raised", "request raised"} =>
        /\ pc # "raised"
        /\ ai_explanation =
               FallbackExplanation(cred.credibility_score, cred.calibration_gap)
        /\ pc = "returned" => final_result.ai_explanation = ai_explanation

\* some stage of the analysis met an error
StageFailed ==
    \/ \E i \in 1..Len(responses) : ~responses[i].ok
    \/ llm \in {"client raised", "request raised"}
    \/ pc = "raised"

\* C11: an error in any stage (acquisition, transcription, extraction,
\* accuracy lookup, scoring, explanation, persistence) ends analyze_channel as
\* a failure carrying a message; a result is returned or stored only when
\* every stage completed, and no partial or corrupt result is ever stored
C11_AnyErrorEndsRequest ==
    /\ StageFailed =>
           /\ pc # "returned"
           /\ channel_id \notin DOMAIN results_file
    /\ pc = "raised" => "stage" \in DOMAIN error
    /\ torn = {}

-----------------------------------------------------------------------------
(* services/baseline.py on its own: the median expression applied to lists  *)
(* of cohort values of every small size, and compare_to_baseline applied to *)
(* subjects below, between, on and above the values of the cohort.          *)

MaxCohort == 4

CohortValueSet == {Pct(25), Pct(45), Pct(68), Pct(72)}

RECURSIVE ListsOf(_, _)
ListsOf(S, n) ==
    IF n = 0 THEN {<<>>}
    ELSE {Append(l, x) : l \in ListsOf(S, n - 1), x \in S}

CohortValueLists == UNION {ListsOf(CohortValueSet, n) : n \in 1..MaxCohort}

SubjectMetrics ==
    [ emotional_intensity : {0, Pct(45), 6790, Pct(100)},
      certainty_index : {0, 3330, Pct(58), Pct(72), Pct(100)},
      technical_depth : {0, Pct(72), 8550},
      prediction_density : {Pct(50)},
      word_count : {100} ]

SubjectAccuracies == {0, 5190, Pct(52), Pct(58), 6330, Pct(65), 6510, Pct(100)}

InitBaseline ==
    /\ \/ /\ pc = "cohort"
          /\ cohort_values \in CohortValueLists
          /\ metrics = None
          /\ historical_accuracy = None
       \/ /\ pc = "subject"
          /\ cohort_values = None
          /\ metrics \in SubjectMetrics
          /\ historical_accuracy \in SubjectAccuracies
    /\ median = None
    /\ nfrag = 0
    /\ transcript = None
    /\ raw = None
    /\ predictions = None
    /\ evidence = None
    /\ cred = None
    /\ baseline_comparison = None
    /\ channel_id = None
    /\ influencer_name = None
    /\ vi = 0
    /\ responses = <<>>
    /\ all_transcripts = <<>>
    /\ video_metadata = <<>>
    /\ llm = None
    /\ ai_explanation = None
    /\ final_result = None
    /\ error = None
    /\ accuracy_file = <<>>
    /\ results_file = <<>>
    /\ torn = {}
    /\ history = <<>>
    /\ clock = 0

\* sorted(values)[len(values)//2], as get_baseline_stats takes each median
Median ==
    /\ pc = "cohort"
    /\ median' = MedianOf(cohort_values)
    /\ pc' = "median"
    /\ UNCHANGED <<cohort_values, scoreVars, reqVars, loopVars, outVars, storeVars>>

\* compare_to_baseline(metrics, historical_accuracy)
CompareToBaseline ==
    /\ pc = "subject"
    /\ baseline_comparison' = compare_to_baseline(metrics, historical_accuracy)
    /\ pc' = "compared"
    /\ UNCHANGED <<nfrag, transcript, extractVars, historical_accuracy, cred, pipeVars>>

NextBaseline == Median \/ CompareToBaseline

SpecBaseline == InitBaseline /\ [][NextBaseline]_vars

-----------------------------------------------------------------------------
(* Properties of the baseline, checked under SpecBaseline.                 *)

Compared == pc = "compared"

\* how many of the values are strictly below x: the place x takes, counted
\* from 0, when it is put among them in ascending order before its equals
Below(values, x) == Cardinality({i \in 1..Len(values) : values[i] < x})

CohortGaps ==
    [i \in 1..Len(BASELINE_INFLUENCERS) |->
        BASELINE_INFLUENCERS[i].metrics.certainty_index
        - BASELINE_INFLUENCERS[i].metrics.historical_accuracy]

\* C14: each percentile rank compare_to_baseline returns is 100 times the
\* first index of the subject's value in the ascending sort of the cohort
\* values plus that value, divided by the new length; a subject that ties a
\* cohort value gets the lowest rank among the equal values, and the rank is
\* in [0,100]
C14_PercentileRanks ==
    Compared =>
        LET length == Len(BASELINE_INFLUENCERS) + 1
            accuracies == BaselineValues("historical_accuracy")
            gap == metrics.certainty_index - historical_accuracy
        IN  /\ baseline_comparison.accuracy_percentile * length
                   = Pct(100) * Below(accuracies, historical_accuracy)
            /\ baseline_comparison.calibration_percentile * length
                   = Pct(100) * Below(CohortGaps, gap)
            /\ baseline_comparison.accuracy_percentile \in 0..Pct(100)
            /\ baseline_comparison.calibration_percentile \in 0..Pct(100)

\* a subject whose accuracy and whose gap both tie a value of the cohort that
\* has one cohort value below it
C14_Witness ==
    /\ Compared
    /\ \E i \in 1..Len(BASELINE_INFLUENCERS) :
           BASELINE_INFLUENCERS[i].metrics.historical_accuracy = historical_accuracy
    /\ \E i \in 1..Len(CohortGaps) :
           CohortGaps[i] = metrics.certainty_index - historical_accuracy
    /\ baseline_comparison.accuracy_percentile = Pct(25)
    /\ baseline_comparison.calibration_percentile = Pct(25)

\* m is the k-th smallest of the values
IsOrderStatistic(m, values, k) ==
    /\ \E i \in 1..Len(values) : values[i] = m
    /\ Cardinality({i \in 1..Len(values) : values[i] < m}) < k
    /\ Cardinality({i \in 1..Len(values) : values[i] <= m}) >= k

\* C15 as stated: the median is the lower of the two middle elements of an
\* even-sized cohort
C15_Original ==
    pc = "median" =>
        LET n == Len(cohort_values)
        IN  /\ n % 2 = 0 => IsOrderStatistic(median, cohort_values, n \div 2)
            /\ n % 2 = 1 => IsOrderStatistic(median, cohort_values, (n + 1) \div 2)

\* C15 amended: the element at index len//2 of the ascending sort is the
\* middle element of an odd-sized cohort and the upper of the two middle
\* elements of an even-sized one; for the reference cohort's emotional
\* intensities 25.0, 45.0, 68.0 it is 45.0
C15_UpperMiddle ==
    pc = "median" =>
        LET n == Len(cohort_values)
        IN  /\ n % 2 = 0 => IsOrderStatistic(median, cohort_values, n \div 2 + 1)
            /\ n % 2 = 1 => IsOrderStatistic(median, cohort_values, (n + 1) \div 2)
            /\ cohort_values = BaselineValues("emotional_intensity") =>
                   /\ median = Pct(45)
                   /\ get_baseline_stats.median_emotional_intensity = median

\* a cohort of four distinct values, whose median is the third smallest
C15_Witness ==
    /\ pc = "median"
    /\ cohort_values = <<Pct(72), Pct(25), Pct(68), Pct(45)>>
    /\ median = Pct(68)

-----------------------------------------------------------------------------
(* The store on its own: calls of services/storage.py made one at a time,  *)
(* each run to its end.  ensure_storage makes an absent file an empty       *)
(* object, so both files start as the empty object.                         *)

MaxCalls == 4

\* results as analyze_channel assembles them: floats with and without a whole
\* value, ints, booleans, strings, nested dicts, an empty and a non-empty list
ResultPool == {
    PyDict([ influencer_name |-> PyStr("Unknown"),
             credibility_score |-> PyFloat(7250),
             calibration_gap |-> PyFloat(Pct(50)),
             calibration_penalty |-> PyInt(20),
             flags |-> PyDict([ overconfident |-> PyBool(TRUE),
                                calm_and_accurate |-> PyBool(FALSE) ]),
             predictions |-> PyList(<< PyStr("BTC will hit $100k by the end of 2025") >>) ]),
    PyDict([ credibility_score |-> PyFloat(0),
             calibration_gap |-> PyFloat(0 - 1250),
             calibration_penalty |-> PyInt(0),
             flags |-> PyDict([ overconfident |-> PyBool(FALSE),
                                calm_and_accurate |-> PyBool(FALSE) ]),
             predictions |-> PyList(<< >>) ]) }

\* the accuracies a caller saves
AccuracyArgs == {4999, Pct(50), 8750}

InitStore ==
    /\ pc = "store"
    /\ nfrag = 0
    /\ transcript = None
    /\ raw = None
    /\ metrics = None
    /\ predictions = None
    /\ evidence = None
    /\ historical_accuracy = None
    /\ cred = None
    /\ baseline_comparison = None
    /\ PipelineIdle

\* save_analysis_result(channel, result); the caller's dict is stamped too
SaveAnalysisResult ==
    /\ pc = "store"
    /\ Len(history) < MaxCalls
    /\ \E channel \in Channels, result \in ResultPool :
        /\ results_file' = save_analysis_result(results_file, channel, result, clock)
        /\ history' = Append(history,
               [ op |-> "save_analysis_result", channel |-> channel, given |-> result,
                 result |-> PyDict(Stamped(result.v, PyStr(Isoformat(clock)))) ])
    /\ clock' = clock + 1
    /\ UNCHANGED <<pc, scoreVars, reqVars, cohortVars, loopVars, outVars, accuracy_file, torn>>

\* get_analysis_result(channel)
GetAnalysisResult ==
    /\ pc = "store"
    /\ Len(history) < MaxCalls
    /\ \E channel \in Channels :
        history' = Append(history,
            [ op |-> "get_analysis_result", channel |-> channel,
              ret |-> get_analysis_result(results_file, channel) ])
    /\ UNCHANGED <<pc, scoreVars, reqVars, cohortVars, loopVars, outVars, accuracy_file, results_file,
                   torn, clock>>

\* list_all_analyses()
ListAllAnalyses ==
    /\ pc = "store"
    /\ Len(history) < MaxCalls
    /\ history' = Append(history,
           [ op |-> "list_all_analyses", ret |-> list_all_analyses(results_file) ])
    /\ UNCHANGED <<pc, scoreVars, reqVars, cohortVars, loopVars, outVars, accuracy_file, results_file,
                   torn, clock>>

\* save_historical_accuracy(channel, accuracy)
SaveHistoricalAccuracy ==
    /\ pc = "store"
    /\ Len(history) < MaxCalls
    /\ \E channel \in Channels, accuracy \in AccuracyArgs :
        /\ accuracy_file' = save_historical_accuracy(accuracy_file, channel, accuracy, clock)
        /\ history' = Append(history,
               [ op |-> "save_historical_accuracy", channel |-> channel,
                 accuracy |-> accuracy ])
    /\ clock' = clock + 1
    /\ UNCHANGED <<pc, scoreVars, reqVars, cohortVars, loopVars, outVars, results_file, torn>>

\* get_historical_accuracy(channel)
GetHistoricalAccuracy ==
    /\ pc = "store"
    /\ Len(history) < MaxCalls
    /\ \E channel \in Channels :
        history' = Append(history,
            [ op |-> "get_historical_accuracy", channel |-> channel,
              ret |-> get_historical_accuracy(accuracy_file, channel) ])
    /\ UNCHANGED <<pc, scoreVars, reqVars, cohortVars, loopVars, outVars, accuracy_file, results_file,
                   torn, clock>>

NextStore ==
    \/ SaveAnalysisResult
    \/ GetAnalysisResult
    \/ ListAllAnalyses
    \/ SaveHistoricalAccuracy
    \/ GetHistoricalAccuracy

SpecStore == InitStore /\ [][NextStore]_vars

-----------------------------------------------------------------------------
(* Properties of the store, checked under SpecStore.                       *)

\* the calls of op for channel among the first n calls
CallsBefore(n, op, channel) ==
    {j \in 1..n : history[j].op = op /\ history[j].channel = channel}

\* got has the fields of given with their values, and analyzed_at besides
SavedPlusStamp(got, given) ==
    /\ got.t = "dict"
    /\ "analyzed_at" \notin DOMAIN given.v
    /\ DOMAIN got.v = DOMAIN given.v \cup {"analyzed_at"}
    /\ \A k \in DOMAIN given.v : got.v[k] = given.v[k]
    /\ got.v.analyzed_at.t = "str"

\* C12: after save_analysis_result(channel_id, result), get_analysis_result
\* (channel_id) returns the saved result field for field plus the one added
\* field analyzed_at, and list_all_analyses holds that entry under channel_id
C12_RoundTrip ==
    \A i \in 1..Len(history) :
        history[i].op = "save_analysis_result" =>
            LET channel == history[i].channel
                given == history[i].given
            IN  /\ i = Len(history) =>
                       LET got == get_analysis_result(results_file, channel)
                           all == list_all_analyses(results_file)
                       IN  /\ SavedPlusStamp(got, given)
                           /\ channel \in DOMAIN all.v
                           /\ all.v[channel] = got
                /\ (/\ i < Len(history)
                    /\ history[i + 1].op = "get_analysis_result"
                    /\ history[i + 1].channel = channel) =>
                       SavedPlusStamp(history[i + 1].ret, given)
                /\ (i < Len(history) /\ history[i + 1].op = "list_all_analyses") =>
                       /\ channel \in DOMAIN history[i + 1].ret.v
                       /\ SavedPlusStamp(history[i + 1].ret.v[channel], given)

\* a result with a whole-valued float and a non-empty list saved, then read
\* back, then listed
C12_Witness ==
    /\ Len(history) = 3
    /\ history[1].op = "save_analysis_result"
    /\ history[1].given.v.calibration_gap = PyFloat(Pct(50))
    /\ Len(history[1].given.v.predictions.v) = 1
    /\ history[2].op = "get_analysis_result"
    /\ history[2].channel = history[1].channel
    /\ history[2].ret.v.calibration_gap = PyFloat(Pct(50))
    /\ history[2].ret.v.analyzed_at = PyStr(Isoformat(0))
    /\ history[3].op = "list_all_analyses"
    /\ history[3].ret.v[history[1].channel] = history[2].ret

\* C13: get_historical_accuracy(channel_id) returns 50.0 when the channel has
\* no record, and otherwise the value of the most recent
\* save_historical_accuracy for that channel, after any saves for any channels
C13_DefaultOrLatest ==
    \A i \in 1..Len(history) :
        history[i].op = "get_historical_accuracy" =>
            LET saves == CallsBefore(i - 1, "save_historical_accuracy", history[i].channel)
            IN  history[i].ret =
                    IF saves = {} THEN Pct(50) ELSE history[SetMax(saves)].accuracy

\* two saves for one channel and one for the other, then the lookup gives the
\* later value of its channel
C13_Witness ==
    /\ Len(history) = 4
    /\ \A i \in 1..3 : history[i].op = "save_historical_accuracy"
    /\ history[1].channel = history[2].channel
    /\ history[3].channel # history[1].channel
    /\ history[1].accuracy # history[2].accuracy
    /\ history[2].accuracy # history[3].accuracy
    /\ history[4].op = "get_historical_accuracy"
    /\ history[4].channel = history[1].channel
    /\ history[4].ret = history[2].accuracy
    /\ history[4].ret # Pct(50)

\* what get_analysis_result returned agrees with the saves made before it
LatestResultReturned ==
    \A i \in 1..Len(history) :
        history[i].op = "get_analysis_result" =>
            LET saves == CallsBefore(i - 1, "save_analysis_result", history[i].channel)
            IN  history[i].ret =
                    IF saves = {} THEN PyNone ELSE history[SetMax(saves)].result

\* a save changes its own entry of its own file and nothing else
SaveFrame ==
    history' # history =>
        LET call == history'[Len(history')]
        IN  /\ call.op = "save_analysis_result" =>
                   /\ accuracy_file' = accuracy_file
                   /\ DOMAIN results_file' = DOMAIN results_file \cup {call.channel}
                   /\ \A c \in DOMAIN results_file \ {call.channel} :
                          results_file'[c] = results_file[c]
            /\ call.op = "save_historical_accuracy" => results_file' = results_file

\* C19: after any sequence of save_analysis_result calls, get_analysis_result(c)
\* returns the result most recently saved for c, None if there was none; a save
\* for c leaves the entries of the other channels and the whole accuracy store
\* unchanged, and save_historical_accuracy leaves the result store unchanged
C19_LatestAndFrame == [](LatestResultReturned) /\ [][SaveFrame]_vars

\* a channel saved twice and the other channel saved after it, and the read
\* gives the second result of the first channel
C19_Witness ==
    /\ Len(history) = 4
    /\ \A i \in 1..3 : history[i].op = "save_analysis_result"
    /\ history[1].channel = history[2].channel
    /\ history[3].channel # history[1].channel
    /\ history[1].given # history[2].given
    /\ history[4].op = "get_analysis_result"
    /\ history[4].channel = history[1].channel
    /\ history[4].ret = history[2].result
    /\ DOMAIN results_file = Channels

====
